---- MODULE Spec2Model ----
(***************************************************************************)
(* Model of plot_deploys.py: extract_deploy_times (marker scan with a      *)
(* bounded lookahead window, order-preserving de-duplication), main (empty *)
(* check, sort, index series, fit, annotations, save) and add_annotation.  *)
(*                                                                         *)
(* A line of history.txt is a sequence of tokens.  A token is a record;    *)
(* k is "date" for text of the shape \d{2}\.\d{2}\.\d{4} \d{2}:\d{2} (its  *)
(* five numeric fields are the digits as written), " " for whitespace and  *)
(* any other string for a word.                                            *)
(***************************************************************************)
EXTENDS Integers, Sequences, FiniteSets, TLC

\* ---------------------------------------------------------------- bounds
MaxLen == 7      \* longest input (lines) of the sparse input family
MaxEvents == 3   \* most non-filler lines in an input of the sparse family
MaxBlocks == 3   \* most marker/timestamp blocks in an input of the block family

\* ------------------------------------------------------------- tokens
Word(w) == [k |-> w, dd |-> 0, mm |-> 0, yyyy |-> 0, HH |-> 0, MM |-> 0]

DateText(d, m, yr, h, mi) == [k |-> "date", dd |-> d, mm |-> m, yyyy |-> yr, HH |-> h, MM |-> mi]

WS == Word(" ")

Sentinel == Word("DeployBot")

Dash == Word("-")

Filler == <<Word("Deployed"), WS, Word("build")>>

\* The three timestamps main() annotates, as text.
GroundClutterText == DateText(10, 12, 2025, 5, 15)

PlanetaryRingsText == DateText(30, 1, 2026, 2, 50)

KittensText == DateText(12, 11, 2025, 14, 44)

\* Text that DATE_PATTERN matches and that is no calendar date (month 13).
InvalidText == DateText(9, 13, 2026, 12, 23)

MarkerLine == <<WS, Sentinel, WS>>

SameLine == <<Sentinel, WS, Dash, WS, GroundClutterText>>

\* ------------------------------------------------- str.strip, re.search
RECURSIVE lstrip(_)
lstrip(s) == IF s # <<>> /\ Head(s) = WS THEN lstrip(Tail(s)) ELSE s

RECURSIVE rstrip(_)
rstrip(s) == IF s # <<>> /\ s[Len(s)] = WS THEN rstrip(SubSeq(s, 1, Len(s) - 1)) ELSE s

strip(s) == rstrip(lstrip(s))

\* line.strip() != "DeployBot" is the negation of this.
IsMarker(line) == strip(line) = <<Sentinel>>

\* DATE_PATTERN.search(line): position of the leftmost match, 0 for None.
DATE_PATTERN_search(line) ==
    IF \E p \in 1..Len(line) : line[p].k = "date"
    THEN CHOOSE p \in 1..Len(line) : line[p].k = "date" /\ \A q \in 1..(p - 1) : line[q].k # "date"
    ELSE 0

\* ------------------------------------------------------ datetime.strptime
IsLeap(yr) == (yr % 4 = 0 /\ yr % 100 # 0) \/ yr % 400 = 0

DaysInMonth(m, yr) ==
    IF m = 2 THEN (IF IsLeap(yr) THEN 29 ELSE 28)
    ELSE IF m \in {4, 6, 9, 11} THEN 30 ELSE 31

\* strptime(text, "%d.%m.%Y %H:%M") returns; otherwise it raises ValueError.
strptime_ok(t) ==
    /\ t.yyyy \in 1..9999
    /\ t.mm \in 1..12
    /\ t.dd >= 1 /\ t.dd <= DaysInMonth(t.mm, t.yyyy)
    /\ t.HH \in 0..23
    /\ t.MM \in 0..59

\* The datetime value: (year, month, day, hour, minute).
strptime(t) == <<t.yyyy, t.mm, t.dd, t.HH, t.MM>>

\* datetime.__lt__: chronological order.
RECURSIVE LexLt(_, _, _)
LexLt(a, b, p) ==
    IF p > Len(a) THEN FALSE
    ELSE IF a[p] # b[p] THEN a[p] < b[p]
    ELSE LexLt(a, b, p + 1)

datetime_lt(a, b) == LexLt(a, b, 1)

\* --------------------------------------------------------------- inputs
EventLines == {MarkerLine, <<GroundClutterText>>, <<Word("at"), WS, KittensText>>, <<Word("at"), WS, InvalidText>>}

\* An input of n lines: those at the positions S are the event lines f
\* gives, the others are filler.
SparseInput(n, S, f) == [p \in 1..n |-> IF p \in S THEN f[p] ELSE Filler]

Blocks == {<<SameLine>>, <<MarkerLine, <<GroundClutterText>>>>, <<MarkerLine, <<Word("at"), WS, KittensText>>>>, <<MarkerLine, <<PlanetaryRingsText>>>>}

RECURSIVE Flatten(_)
Flatten(ss) == IF ss = <<>> THEN <<>> ELSE Head(ss) \o Flatten(Tail(ss))

\* ---------------------------------------------------------------- state
VARIABLES lines, pc, i, j, times, k, seen, unique_times, main_times, y, fit_n, req, annotations, saved

vars == <<lines, pc, i, j, times, k, seen, unique_times, main_times, y, fit_n, req, annotations, saved>>

Init ==
    \* At most MaxLen lines of which at most MaxEvents are not filler, or at
    \* most MaxBlocks blocks (a marker and the timestamp after it, or both on
    \* one line).
    /\ \/ \E n \in 0..MaxLen : \E S \in SUBSET (1..n) :
            /\ Cardinality(S) <= MaxEvents
            /\ \E f \in [S -> EventLines] : lines = SparseInput(n, S, f)
       \/ \E b \in 0..MaxBlocks : \E bs \in [1..b -> Blocks] : lines = Flatten(bs)
    /\ pc = "for_i"
    /\ i = 0
    /\ j = 0
    /\ times = <<>>
    /\ k = 0
    /\ seen = {}
    /\ unique_times = <<>>
    /\ main_times = <<>>
    /\ y = <<>>
    /\ fit_n = 0
    /\ req = 0
    /\ annotations = <<>>
    /\ saved = FALSE

\* -------------------------------------------------- extract_deploy_times
Line(n) == lines[n + 1]

WindowSpan == 6

Min(a, b) == IF a < b THEN a ELSE b

\* Variant: a window one line longer.
WindowEnd_seven(i0, n) == Min(i0 + WindowSpan + 1, n)

\* range(i, min(i + 6, len(lines))): the exclusive end of the window.
WindowEnd(i0, n) == Min(i0 + WindowSpan, n)

\* Variant: the scan resumes after the line the window scan stopped at.
AfterWindow_resume(i0, j0) == j0 + 1

\* The index enumerate yields after the window scan of marker i0 ended with
\* the inner loop at j0: the inner loop has its own variable.
AfterWindow(i0, j0) == i0 + 1

\* Variant: the break is missing.
Breaks_never(match) == FALSE

\* "if match: ...; break": whether the window scan ends after line j.
Breaks(match) == match # 0

\* Variant: the membership test never succeeds.
InSeen_never(t, s) == FALSE

\* "if timestamp in seen".
InSeen(t, s) == t \in s

\* for i, line in enumerate(lines): a line that is no marker is skipped.
ForI_Skip ==
    /\ pc = "for_i"
    /\ i < Len(lines)
    /\ ~IsMarker(Line(i))
    /\ i' = i + 1
    /\ UNCHANGED <<lines, pc, j, times, k, seen, unique_times, main_times, y, fit_n, req, annotations, saved>>

\* A marker line: the window scan starts at the marker line itself.
ForI_Marker ==
    /\ pc = "for_i"
    /\ i < Len(lines)
    /\ IsMarker(Line(i))
    /\ pc' = "for_j"
    /\ j' = i
    /\ UNCHANGED <<lines, i, times, k, seen, unique_times, main_times, y, fit_n, req, annotations, saved>>

\* The enumerate loop is exhausted: go on to the de-duplication.
ForI_End ==
    /\ pc = "for_i"
    /\ i >= Len(lines)
    /\ pc' = "dedup"
    /\ k' = 0
    /\ UNCHANGED <<lines, i, j, times, seen, unique_times, main_times, y, fit_n, req, annotations, saved>>

\* lines[j] has no match: next line of the window.
ForJ_NoMatch ==
    /\ pc = "for_j"
    /\ j < WindowEnd(i, Len(lines))
    /\ DATE_PATTERN_search(Line(j)) = 0
    /\ j' = j + 1
    /\ UNCHANGED <<lines, pc, i, times, k, seen, unique_times, main_times, y, fit_n, req, annotations, saved>>

\* lines[j] has a match that strptime accepts: append it and break.
ForJ_Match ==
    /\ pc = "for_j"
    /\ j < WindowEnd(i, Len(lines))
    /\ LET m == DATE_PATTERN_search(Line(j)) IN
        /\ m # 0
        /\ strptime_ok(Line(j)[m])
        /\ times' = Append(times, strptime(Line(j)[m]))
        /\ IF Breaks(m)
           THEN pc' = "for_i" /\ i' = AfterWindow(i, j) /\ j' = j
           ELSE pc' = "for_j" /\ i' = i /\ j' = j + 1
    /\ UNCHANGED <<lines, k, seen, unique_times, main_times, y, fit_n, req, annotations, saved>>

\* lines[j] has a match that strptime rejects: ValueError, caught nowhere.
ForJ_Raise ==
    /\ pc = "for_j"
    /\ j < WindowEnd(i, Len(lines))
    /\ LET m == DATE_PATTERN_search(Line(j)) IN
        /\ m # 0
        /\ ~strptime_ok(Line(j)[m])
    /\ pc' = "ValueError"
    /\ UNCHANGED <<lines, i, j, times, k, seen, unique_times, main_times, y, fit_n, req, annotations, saved>>

\* The window is exhausted without a match.
ForJ_End ==
    /\ pc = "for_j"
    /\ j >= WindowEnd(i, Len(lines))
    /\ pc' = "for_i"
    /\ i' = AfterWindow(i, j)
    /\ UNCHANGED <<lines, j, times, k, seen, unique_times, main_times, y, fit_n, req, annotations, saved>>

\* for timestamp in times: one already seen is skipped.
Dedup_Skip ==
    /\ pc = "dedup"
    /\ k < Len(times)
    /\ InSeen(times[k + 1], seen)
    /\ k' = k + 1
    /\ UNCHANGED <<lines, pc, i, j, times, seen, unique_times, main_times, y, fit_n, req, annotations, saved>>

\* A new one is added to seen and appended to unique_times.
Dedup_Add ==
    /\ pc = "dedup"
    /\ k < Len(times)
    /\ ~InSeen(times[k + 1], seen)
    /\ seen' = seen \cup {times[k + 1]}
    /\ unique_times' = Append(unique_times, times[k + 1])
    /\ k' = k + 1
    /\ UNCHANGED <<lines, pc, i, j, times, main_times, y, fit_n, req, annotations, saved>>

\* return unique_times: main's times is the returned list.
Return ==
    /\ pc = "dedup"
    /\ k >= Len(times)
    /\ pc' = "main"
    /\ main_times' = unique_times
    /\ UNCHANGED <<lines, i, j, times, k, seen, unique_times, y, fit_n, req, annotations, saved>>

\* ------------------------------------------------------------------ main
\* Variant: the empty check never fires.
Falsy_never(s) == FALSE

\* "not times".
Falsy(s) == Len(s) = 0

\* list.sort() under datetime's order (stable insertion).
RECURSIVE Insert(_, _)
Insert(s, x) ==
    IF s = <<>> THEN <<x>>
    ELSE IF datetime_lt(x, Head(s)) THEN <<x>> \o s
    ELSE <<Head(s)>> \o Insert(Tail(s), x)

\* Variant: the list is left in scan order.
list_sort_noop(s) == s

RECURSIVE list_sort(_)
list_sort(s) == IF s = <<>> THEN <<>> ELSE Insert(list_sort(SubSeq(s, 1, Len(s) - 1)), s[Len(s)])

\* Variant: a 0-based index series.
Range1_zero(n) == [p \in 1..n |-> p - 1]

\* list(range(1, n + 1)).
Range1(n) == [p \in 1..n |-> p]

\* "x in s" and s.index(x) (0-based, the first occurrence).
Contains(s, x) == \E p \in 1..Len(s) : s[p] = x

Index(s, x) == (CHOOSE p \in 1..Len(s) : s[p] = x /\ \A q \in 1..(p - 1) : s[q] # x) - 1

\* The three add_annotation calls of main, in order.
AnnotationRequests ==
    << [text |-> GroundClutterText, title |-> "Ground Clutter"],
       [text |-> PlanetaryRingsText, title |-> "Planetary Rings"],
       [text |-> KittensText, title |-> "Kittens"] >>

\* if not times: raise SystemExit(...).
Main_Exit ==
    /\ pc = "main"
    /\ Falsy(main_times)
    /\ pc' = "SystemExit"
    /\ UNCHANGED <<lines, i, j, times, k, seen, unique_times, main_times, y, fit_n, req, annotations, saved>>

\* times.sort(); y = list(range(1, len(times) + 1)); scatter.
Main_Sort ==
    /\ pc = "main"
    /\ ~Falsy(main_times)
    /\ main_times' = list_sort(main_times)
    /\ y' = Range1(Len(main_times))
    /\ pc' = "fit"
    /\ UNCHANGED <<lines, i, j, times, k, seen, unique_times, fit_n, req, annotations, saved>>

\* x = date2num(times); np.polyfit(x, y, 1): fit_n is the number of points
\* handed to the fit.
Main_Fit ==
    /\ pc = "fit"
    /\ fit_n' = Len(main_times)
    /\ pc' = "annotate"
    /\ req' = 1
    /\ UNCHANGED <<lines, i, j, times, k, seen, unique_times, main_times, y, annotations, saved>>

\* add_annotation with annotation_date in times: annotate (time, y_val).
Annotate_Present ==
    /\ pc = "annotate"
    /\ LET r == AnnotationRequests[req]
           annotation_date == strptime(r.text)
       IN /\ Contains(main_times, annotation_date)
          /\ LET idx == Index(main_times, annotation_date) IN
               annotations' = Append(annotations, [title |-> r.title, xy |-> <<main_times[idx + 1], y[idx + 1]>>])
    /\ IF req < Len(AnnotationRequests) THEN req' = req + 1 /\ pc' = pc ELSE req' = req /\ pc' = "save"
    /\ UNCHANGED <<lines, i, j, times, k, seen, unique_times, main_times, y, fit_n, saved>>

\* add_annotation with annotation_date not in times: nothing happens.
Annotate_Absent ==
    /\ pc = "annotate"
    /\ ~Contains(main_times, strptime(AnnotationRequests[req].text))
    /\ IF req < Len(AnnotationRequests) THEN req' = req + 1 /\ pc' = pc ELSE req' = req /\ pc' = "save"
    /\ UNCHANGED <<lines, i, j, times, k, seen, unique_times, main_times, y, fit_n, annotations, saved>>

\* fig.savefig(output_path).
Main_Save ==
    /\ pc = "save"
    /\ saved' = TRUE
    /\ pc' = "done"
    /\ UNCHANGED <<lines, i, j, times, k, seen, unique_times, main_times, y, fit_n, req, annotations>>

Next ==
    \/ ForI_Skip
    \/ ForI_Marker
    \/ ForI_End
    \/ ForJ_NoMatch
    \/ ForJ_Match
    \/ ForJ_Raise
    \/ ForJ_End
    \/ Dedup_Skip
    \/ Dedup_Add
    \/ Return
    \/ Main_Exit
    \/ Main_Sort
    \/ Main_Fit
    \/ Annotate_Present
    \/ Annotate_Absent
    \/ Main_Save

Spec == Init /\ [][Next]_vars

\* ------------------------------------------------------------ properties
Past(states) == pc \in states

Sorted_pcs == {"fit", "annotate", "save", "done"}

Returned_pcs == {"main", "SystemExit"} \cup Sorted_pcs

\* Minutes on a monotone calendar scale (months of 31 days).
Stamp(t) == (((t[1] * 12 + t[2]) * 31 + t[3]) * 24 + t[4]) * 60 + t[5]

HasDateText(line) == \E p \in 1..Len(line) : line[p].k = "date"

\* The text of a line's first timestamp, and whether it is a valid one.
FirstDateText(line) == line[CHOOSE p \in 1..Len(line) : line[p].k = "date" /\ \A q \in 1..(p - 1) : line[q].k # "date"]

HasValidStamp(line) == HasDateText(line) /\ strptime_ok(FirstDateText(line))

InstantOf(line) == <<FirstDateText(line).yyyy, FirstDateText(line).mm, FirstDateText(line).dd, FirstDateText(line).HH, FirstDateText(line).MM>>

LastLine == Len(lines) - 1

MarkerAt(m) == m \in 0..LastLine /\ IsMarker(Line(m))

\* C1: whenever the pipeline has produced its final series (after main's
\* times.sort()), the series is strictly increasing in time: every entry is
\* earlier than its successor, so no two entries are equal.
C1_StrictlyIncreasing ==
    Past(Sorted_pcs) => \A p \in 1..(Len(main_times) - 1) : Stamp(main_times[p]) < Stamp(main_times[p + 1])

C1_Witness ==
    /\ pc = "done"
    /\ Len(main_times) >= 2
    /\ main_times # unique_times
    /\ Len(times) > Len(unique_times)

\* C2: a line-level parse failure never propagates: the scan never ends in
\* an uncaught ValueError, whatever the lines hold.
C2_NeverPropagates == pc # "ValueError"

\* A line that starts, after stripping, with the sentinel.
SentinelLine(line) == strip(line) # <<>> /\ Head(strip(line)) = Sentinel

\* C3: when the scan has returned its candidates, for every line i that
\* starts with the sentinel, a valid timestamp on line i itself (after a
\* separator) or on line i+1 is among the candidates.
C3_Captured ==
    Past({"dedup"}) =>
        \A n \in 0..LastLine : SentinelLine(Line(n)) =>
            /\ HasValidStamp(Line(n)) => Contains(times, InstantOf(Line(n)))
            /\ (n + 1 <= LastLine /\ ~HasDateText(Line(n)) /\ HasValidStamp(Line(n + 1))) => Contains(times, InstantOf(Line(n + 1)))

\* C4: the window of a marker at line i is lines i..min(i+5, last line):
\* every line the window scan reads lies in that range and inside the input,
\* and with a single marker at line i and no timestamp text on lines i..i+5
\* the scan collects no candidate, whatever stands on line i+6 and later.
C4_Window ==
    /\ (pc = "for_j" /\ j < WindowEnd(i, Len(lines))) => (i <= j /\ j <= i + 5 /\ j <= LastLine)
    /\ \A m \in 0..LastLine :
         ( /\ MarkerAt(m)
           /\ \A n \in 0..LastLine : MarkerAt(n) => n = m
           /\ \A n \in m..(m + 5) : n <= LastLine => ~HasDateText(Line(n)) ) => times = <<>>

C4_Witness ==
    /\ pc = "dedup"
    /\ times = <<>>
    /\ \E m \in 0..LastLine :
         /\ MarkerAt(m)
         /\ m + 6 <= LastLine
         /\ HasValidStamp(Line(m + 6))
         /\ \A n \in m..(m + 5) : ~HasDateText(Line(n))

\* C5: an empty de-duplicated series is fatal: from the empty check the only
\* step is the SystemExit, no state past the check (fit, annotations, save)
\* has an empty series, and a run that exited has fitted, annotated and
\* saved nothing.
C5_EmptyIsFatal ==
    /\ [](Past(Sorted_pcs) => unique_times # <<>>)
    /\ [](pc = "SystemExit" => (unique_times = <<>> /\ fit_n = 0 /\ annotations = <<>> /\ ~saved))
    /\ [][(pc = "main" /\ unique_times = <<>>) => pc' = "SystemExit"]_vars

C5_Witness ==
    /\ pc = "SystemExit"
    /\ unique_times = <<>>
    /\ \E m \in 0..LastLine : MarkerAt(m)
    /\ ~saved

\* The entries of s that no earlier entry equals, in the order of s.
RECURSIVE FirstOccurrences(_, _)
FirstOccurrences(s, n) ==
    IF n = 0 THEN <<>>
    ELSE IF \E q \in 1..(n - 1) : s[q] = s[n] THEN FirstOccurrences(s, n - 1)
    ELSE Append(FirstOccurrences(s, n - 1), s[n])

\* C6: de-duplication keeps the first occurrence of each distinct instant in
\* scan order: after each step of the loop unique_times is the first
\* occurrences among the candidates read so far, and the returned list is
\* that of the whole candidate list.
C6_FirstSeen ==
    /\ pc = "dedup" => unique_times = FirstOccurrences(times, k)
    /\ Past(Returned_pcs) => unique_times = FirstOccurrences(times, Len(times))

C6_Witness ==
    /\ pc = "main"
    /\ Len(times) = 3
    /\ times[1] = times[3]
    /\ times[1] # times[2]
    /\ unique_times = <<times[1], times[2]>>

\* C7: a series of fewer than 2 instants is never handed to the fit.
C7_Guarded == Len(main_times) < 2 => fit_n = 0

\* The annotation for request r, if one was made.
AnnotationsFor(r) == {p \in 1..Len(annotations) : annotations[p].title = AnnotationRequests[r].title}

TargetOf(r) == InstantOf(<<AnnotationRequests[r].text>>)

\* C8: y is 1..N, as long as the series; once the annotations are resolved,
\* a request whose target is absent from the series has no annotation, and a
\* request whose target is present has exactly one, at (target, its 1-based
\* chronological rank in the series).
C8_Annotations ==
    /\ Past(Sorted_pcs) => (Len(y) = Len(main_times) /\ \A p \in 1..Len(y) : y[p] = p)
    /\ Past({"save", "done"}) =>
         \A r \in 1..Len(AnnotationRequests) :
            IF \E p \in 1..Len(main_times) : main_times[p] = TargetOf(r)
            THEN /\ Cardinality(AnnotationsFor(r)) = 1
                 /\ \A p \in AnnotationsFor(r) :
                      annotations[p].xy = <<TargetOf(r), 1 + Cardinality({q \in 1..Len(main_times) : Stamp(main_times[q]) < Stamp(TargetOf(r))})>>
            ELSE AnnotationsFor(r) = {}

C8_Witness ==
    /\ pc = "done"
    /\ Len(annotations) = 2
    /\ annotations[1].title = "Ground Clutter"
    /\ annotations[1].xy[2] = 2
    /\ annotations[2].title = "Kittens"
    /\ unique_times[1] = TargetOf(1)

\* The lines of marker m's window, and the candidate the marker contributes:
\* the instant of the lowest-indexed line of the window that parses.
WindowOf(m) == {n \in m..(m + 5) : n <= LastLine}

ParsesAt(n) == HasValidStamp(Line(n))

Contribution(m) ==
    IF \E n \in WindowOf(m) : ParsesAt(n)
    THEN <<InstantOf(Line(CHOOSE n \in WindowOf(m) : ParsesAt(n) /\ \A q \in WindowOf(m) : ParsesAt(q) => n <= q))>>
    ELSE <<>>

\* The contributions of the markers on lines 0..n-1, in marker order.
RECURSIVE Contributions(_)
Contributions(n) ==
    IF n = 0 THEN <<>>
    ELSE Contributions(n - 1) \o (IF MarkerAt(n - 1) THEN Contribution(n - 1) ELSE <<>>)

\* C9: at every point of the scan the candidate list is, in marker order,
\* one instant per marker line already handled whose window has a line that
\* parses (the lowest-indexed such line), and nothing for the others; so
\* there are never more candidates than marker lines.
C9_OnePerMarker ==
    /\ times = Contributions(i)
    /\ Len(times) <= Cardinality({m \in 0..LastLine : MarkerAt(m) /\ m < i})

C9_Witness ==
    /\ pc = "dedup"
    /\ Len(times) = 1
    /\ \E m \in 0..LastLine :
         /\ MarkerAt(m)
         /\ \E a, b \in WindowOf(m) :
              /\ a < b
              /\ ParsesAt(a)
              /\ ParsesAt(b)
              /\ InstantOf(Line(a)) # InstantOf(Line(b))
              /\ times = <<InstantOf(Line(a))>>

\* C10: the outer iteration visits the lines one by one whatever the window
\* scans do: a marker line reached at index i starts its own window at
\* j = i, a step of the window scan leaves i alone, and the line taken up
\* after a window scan (with or without a hit) is i+1, also when it lies
\* inside the window just scanned.
C10_IndependentWindows ==
    [][ /\ (pc = "for_i" /\ pc' = "for_i") => i' = i + 1
        /\ (pc = "for_i" /\ MarkerAt(i)) => (pc' = "for_j" /\ j' = i /\ i' = i)
        /\ (pc = "for_j" /\ pc' = "for_j") => i' = i
        /\ (pc = "for_j" /\ pc' = "for_i") => i' = i + 1 ]_vars

C10_Witness ==
    /\ pc = "for_j"
    /\ j = i
    /\ Len(times) = 1
    /\ \E m \in 0..LastLine :
         /\ MarkerAt(m)
         /\ m < i
         /\ i \in WindowOf(m)
         /\ \E h \in WindowOf(m) : h > i /\ ParsesAt(h)

====
